---------------------------- MODULE Spec2Model ----------------------------
(***************************************************************************)
(* Model of src/src/dicom_image_filter.py: the filter catalogue            *)
(* (dicom_image_filters, newFilter), the per-filter property objects and   *)
(* the four dispatch methods (TransformToHU, Windowing, Dilate, Erode).    *)
(*                                                                         *)
(* Python objects live in heaps and are named by references (positive      *)
(* integers): `heap` holds the property objects, `arrays` the numpy        *)
(* arrays.  Python's None is the reference 0.  A pixel array is a sequence *)
(* of rows, each a sequence of integers.                                   *)
(***************************************************************************)
EXTENDS Integers, Sequences, FiniteSets, TLC

VARIABLES
    filters,      \* the filter instances created so far: [cls, properties]
    heap,         \* the property objects, by reference
    raised,       \* the exception the last call raised, or "none"
    last,         \* the last call made: [op, arg]
    ds,           \* dicom_ds: the metadata record handed to dispatch
    arrays,       \* the numpy arrays, by reference
    pixel_array,  \* the reference the caller hands to dispatch
    ret,          \* what the last dispatch returned
    trace,        \* the dispatch calls made since the array was loaded
    orig          \* the contents of the caller's array when it was loaded

vars == <<filters, heap, raised, last, ds, arrays, pixel_array, ret, trace, orig>>

regVars == <<filters, heap, raised, last>>
pixVars == <<ds, arrays, pixel_array, ret, trace, orig>>

(***************************************************************************)
(* Bounds of the model.                                                    *)
(***************************************************************************)
MaxFilters == 2      \* filter instances alive at once
MaxIndex == 5        \* newFilter is tried with every index in -MaxIndex..MaxIndex
MaxKernel == 3       \* kernel_x, kernel_y range over 1..MaxKernel
MaxIter == 2         \* iterations ranges over 1..MaxIter
MaxRows == 3         \* binary images have MaxRows rows
MaxCols == 3         \* ... and MaxCols columns
MaxOps == 2          \* dispatch calls made on one loaded array
MaxLen == 2          \* length of the one-row arrays handed to HU and Windowing
MaxWidth == 49       \* Windowing width ranges over -MaxNegWidth..MaxWidth
MaxNegWidth == 3

None == 0

(***************************************************************************)
(* Property objects (the dataclasses).  The constructors take their        *)
(* arguments positionally, in the order the fields are declared.           *)
(***************************************************************************)
WindowingProperties(a1, a2) == [width |-> a1, level |-> a2]

FilterMorphologyProperties(a1, a2, a3) ==
    [kernel_x |-> a1, kernel_y |-> a2, iterations |-> a3]

(***************************************************************************)
(* The classes: static attributes and what __init__ puts in properties.    *)
(***************************************************************************)
dicom_image_filters ==
    << "FilterTransformToHU", "FilterWindowing",
       "FilterMorphologyDilate", "FilterMorphologyErode" >>

isInplaceOp(cls) ==
    CASE cls = "FilterTransformToHU" -> FALSE
      [] cls = "FilterWindowing" -> FALSE
      [] cls = "FilterMorphologyDilate" -> TRUE
      [] cls = "FilterMorphologyErode" -> TRUE

displayName(cls) ==
    CASE cls = "FilterTransformToHU" -> "Transform2HU"
      [] cls = "FilterWindowing" -> "CTWindowing"
      [] cls = "FilterMorphologyDilate" -> "Dilate"
      [] cls = "FilterMorphologyErode" -> "Erode"

FilterWindowingInit == WindowingProperties(40, 48)

FilterMorphologyDilateInit == FilterMorphologyProperties(5, 5, 1)

FilterMorphologyErodeInit == FilterMorphologyProperties(5, 5, 1)

\* BaseClassImageFilter.__init__ sets properties to None; TransformToHU's
\* __init__ runs only that, the other three build a property object.
BuildsProperties(cls) == cls # "FilterTransformToHU"

InitProperties(cls) ==
    CASE cls = "FilterWindowing" -> FilterWindowingInit
      [] cls = "FilterMorphologyDilate" -> FilterMorphologyDilateInit
      [] cls = "FilterMorphologyErode" -> FilterMorphologyErodeInit

\* A bug the model is compared with: the property object kept per class and
\* shared by the instances, instead of built by each __init__.
ConstructShared(cls, fs, h) ==
    IF ~BuildsProperties(cls)
    THEN [inst |-> [cls |-> cls, properties |-> None], heap |-> h]
    ELSE IF \E i \in DOMAIN fs : fs[i].cls = cls
         THEN LET i == CHOOSE j \in DOMAIN fs : fs[j].cls = cls
              IN [inst |-> [cls |-> cls, properties |-> fs[i].properties], heap |-> h]
         ELSE [inst |-> [cls |-> cls, properties |-> Len(h) + 1],
               heap |-> Append(h, InitProperties(cls))]

\* cls(): a new instance whose properties is a new object on the heap.
Construct(cls, fs, h) ==
    IF ~BuildsProperties(cls)
    THEN [inst |-> [cls |-> cls, properties |-> None], heap |-> h]
    ELSE [inst |-> [cls |-> cls, properties |-> Len(h) + 1],
          heap |-> Append(h, InitProperties(cls))]

\* list[i] in Python: a negative index counts from the end; outside
\* -len..len-1 the subscript raises IndexError.
InListRange(n, i) == -n <= i /\ i <= n - 1

ListIndex(n, i) == IF i < 0 THEN i + n ELSE i

(***************************************************************************)
(* Registry operations.                                                    *)
(***************************************************************************)
IndexRange == (-MaxIndex) .. MaxIndex

newFilter(filter_enum) ==
    LET n == Len(dicom_image_filters) IN
    /\ last' = [op |-> "newFilter", arg |-> filter_enum]
    /\ IF InListRange(n, filter_enum)
       THEN /\ Len(filters) < MaxFilters
            /\ LET cls == dicom_image_filters[ListIndex(n, filter_enum) + 1]
                   new == Construct(cls, filters, heap)
               IN /\ filters' = Append(filters, new.inst)
                  /\ heap' = new.heap
            /\ raised' = "none"
       ELSE /\ raised' = "IndexError"
            /\ UNCHANGED <<filters, heap>>
    /\ UNCHANGED pixVars

\* The value a spin box writes into the attribute it is bound to.
SpinValues == {7}

\* valueChanged of the spin box bound to (properties, attr):
\* setattr(prop, attr, spinbox.value()).
SetAttr(f, attr, v) ==
    /\ f \in DOMAIN filters
    /\ filters[f].properties # None
    /\ attr \in DOMAIN heap[filters[f].properties]
    /\ heap' = [heap EXCEPT ![filters[f].properties][attr] = v]
    /\ last' = [op |-> "setattr", arg |-> f]
    /\ raised' = "none"
    /\ UNCHANGED <<filters>>
    /\ UNCHANGED pixVars

AttrNames == {"width", "level", "kernel_x", "kernel_y", "iterations"}

NoCall == [kind |-> "nocall", ref |-> None]

IdlePix ==
    /\ ds = <<>>
    /\ arrays = <<>>
    /\ pixel_array = None
    /\ ret = NoCall
    /\ trace = <<>>
    /\ orig = <<>>

InitReg ==
    /\ filters = <<>>
    /\ heap = <<>>
    /\ raised = "none"
    /\ last = [op |-> "start", arg |-> 0]
    /\ IdlePix

NextReg ==
    \/ \E i \in IndexRange : newFilter(i)
    \/ \E f \in 1 .. MaxFilters, attr \in AttrNames, v \in SpinValues : SetAttr(f, attr, v)

SpecReg == InitReg /\ [][NextReg]_vars

(***************************************************************************)
(* Pixel arrays and the calls made on them.                                *)
(***************************************************************************)
Shape(A) == <<Len(A), Len(A[1])>>

ReturnedNone == [kind |-> "None", ref |-> None]

ReturnedArray(ref) == [kind |-> "ndarray", ref |-> ref]

\* One entry of `trace`: the class dispatched, the property values it read,
\* the contents of the array it was handed and the locals it computed.
Call(cls, p, input, locals) ==
    [cls |-> cls, properties |-> p, input |-> input, locals |-> locals]

CanDispatch(f, cls) ==
    /\ f \in DOMAIN filters
    /\ filters[f].cls = cls
    /\ pixel_array # None
    /\ Len(trace) < MaxOps

(***************************************************************************)
(* FilterTransformToHU.dispatch                                            *)
(***************************************************************************)
hasattr(d, name) == name \in DOMAIN d

\* A bug the model is compared with: the intercept added before scaling.
HUValueAddFirst(v, slope, intercept) == (v + intercept) * slope

\* One element of pixel_array * slope + intercept.
HUValue(v, slope, intercept) == v * slope + intercept

Rescale(A, slope, intercept) ==
    [r \in DOMAIN A |-> [c \in DOMAIN A[r] |-> HUValue(A[r][c], slope, intercept)]]

DispatchHU(f) ==
    /\ CanDispatch(f, "FilterTransformToHU")
    /\ IF ~hasattr(ds, "RescaleIntercept")
       THEN ret' = ReturnedNone /\ UNCHANGED arrays
       ELSE IF ~hasattr(ds, "RescaleSlope")
       THEN ret' = ReturnedNone /\ UNCHANGED arrays
       ELSE LET slope == ds.RescaleSlope
                intercept == ds.RescaleIntercept
            IN /\ arrays' = Append(arrays, Rescale(arrays[pixel_array], slope, intercept))
               /\ ret' = ReturnedArray(Len(arrays) + 1)
    /\ trace' = Append(trace, Call("FilterTransformToHU", None, arrays[pixel_array], <<>>))
    /\ UNCHANGED <<ds, pixel_array, orig>>
    /\ UNCHANGED regVars

(***************************************************************************)
(* FilterWindowing.dispatch                                                *)
(***************************************************************************)
\* A bug the model is compared with: division that truncates toward zero.
TruncDiv(a, b) == IF a >= 0 THEN a \div b ELSE -((-a) \div b)

\* Python's a // b on integers, b > 0: the floor of the quotient.
FloorDiv(a, b) == a \div b

img_min(p) == p.level - FloorDiv(p.width, 2)

img_max(p) == p.level + FloorDiv(p.width, 2)

\* pixel_array[pixel_array < lo] = lo
SetBelow(A, lo) ==
    [r \in DOMAIN A |-> [c \in DOMAIN A[r] |-> IF A[r][c] < lo THEN lo ELSE A[r][c]]]

\* A bug the model is compared with: the second mask written with <.
SetAboveWrongMask(A, hi) ==
    [r \in DOMAIN A |-> [c \in DOMAIN A[r] |-> IF A[r][c] < hi THEN hi ELSE A[r][c]]]

\* pixel_array[pixel_array > hi] = hi
SetAbove(A, hi) ==
    [r \in DOMAIN A |-> [c \in DOMAIN A[r] |-> IF A[r][c] > hi THEN hi ELSE A[r][c]]]

DispatchWindowing(f) ==
    /\ CanDispatch(f, "FilterWindowing")
    /\ LET p == heap[filters[f].properties]
           lo == img_min(p)
           hi == img_max(p)
       IN /\ arrays' = [arrays EXCEPT ![pixel_array] = SetAbove(SetBelow(@, lo), hi)]
          /\ trace' = Append(trace, Call("FilterWindowing", p, arrays[pixel_array],
                                         [img_min |-> lo, img_max |-> hi]))
    /\ ret' = ReturnedArray(pixel_array)
    /\ UNCHANGED <<ds, pixel_array, orig>>
    /\ UNCHANGED regVars

(***************************************************************************)
(* FilterMorphologyDilate.dispatch and FilterMorphologyErode.dispatch.     *)
(* The kernel is np.ones((kernel_x, kernel_y)): kernel_x rows, kernel_y    *)
(* columns, every element set.  cv.dilate and cv.erode are called with the *)
(* default anchor (the kernel's centre, size div 2) and the default border *)
(* (pixels outside the image never decide the maximum or the minimum), and *)
(* src and dst are the same array.                                         *)
(***************************************************************************)
SetMax(S) == CHOOSE x \in S : \A y \in S : y <= x

SetMin(S) == CHOOSE x \in S : \A y \in S : x <= y

\* A bug the model is compared with: the anchor left at the kernel's corner.
AnchorCorner(k) == 0

Anchor(k) == k \div 2

\* The positions the kernel covers when its anchor sits on (r, c).
Neighbourhood(r, c, kx, ky) ==
    { <<r + i - Anchor(kx), c + j - Anchor(ky)>> : i \in 0 .. kx - 1, j \in 0 .. ky - 1 }

InImage(A, q) == q[1] \in DOMAIN A /\ q[2] \in DOMAIN A[1]

DilateWindow(A, r, c, kx, ky) ==
    { A[q[1]][q[2]] : q \in { n \in Neighbourhood(r, c, kx, ky) : InImage(A, n) } }

\* A bug the model is compared with: pixels outside the image read as 0.
ErodeWindowZeroBorder(A, r, c, kx, ky) ==
    { A[q[1]][q[2]] : q \in { n \in Neighbourhood(r, c, kx, ky) : InImage(A, n) } }
    \cup { z \in {0} : \E n \in Neighbourhood(r, c, kx, ky) : ~InImage(A, n) }

ErodeWindow(A, r, c, kx, ky) ==
    { A[q[1]][q[2]] : q \in { n \in Neighbourhood(r, c, kx, ky) : InImage(A, n) } }

DilateOnce(A, kx, ky) ==
    [r \in DOMAIN A |-> [c \in DOMAIN A[r] |-> SetMax(DilateWindow(A, r, c, kx, ky))]]

ErodeOnce(A, kx, ky) ==
    [r \in DOMAIN A |-> [c \in DOMAIN A[r] |-> SetMin(ErodeWindow(A, r, c, kx, ky))]]

RECURSIVE cv_dilate(_, _, _, _)
cv_dilate(A, kx, ky, iterations) ==
    IF iterations = 0 THEN A
    ELSE cv_dilate(DilateOnce(A, kx, ky), kx, ky, iterations - 1)

RECURSIVE cv_erode(_, _, _, _)
cv_erode(A, kx, ky, iterations) ==
    IF iterations = 0 THEN A
    ELSE cv_erode(ErodeOnce(A, kx, ky), kx, ky, iterations - 1)

DispatchDilate(f) ==
    /\ CanDispatch(f, "FilterMorphologyDilate")
    /\ LET p == heap[filters[f].properties]
       IN /\ arrays' = [arrays EXCEPT ![pixel_array] =
                            cv_dilate(@, p.kernel_x, p.kernel_y, p.iterations)]
          /\ trace' = Append(trace, Call("FilterMorphologyDilate", p,
                                         arrays[pixel_array], <<>>))
    /\ ret' = ReturnedNone
    /\ UNCHANGED <<ds, pixel_array, orig>>
    /\ UNCHANGED regVars

DispatchErode(f) ==
    /\ CanDispatch(f, "FilterMorphologyErode")
    /\ LET p == heap[filters[f].properties]
       IN /\ arrays' = [arrays EXCEPT ![pixel_array] =
                            cv_erode(@, p.kernel_x, p.kernel_y, p.iterations)]
          /\ trace' = Append(trace, Call("FilterMorphologyErode", p,
                                         arrays[pixel_array], <<>>))
    /\ ret' = ReturnedNone
    /\ UNCHANGED <<ds, pixel_array, orig>>
    /\ UNCHANGED regVars

(***************************************************************************)
(* Inputs.                                                                 *)
(***************************************************************************)
\* One-row arrays of 1..MaxLen elements over a set of values.
RowArrays(V) == UNION { { <<row>> : row \in [1 .. n -> V] } : n \in 1 .. MaxLen }

\* Two-by-two arrays over a set of values.
SquareArrays(V) == { <<r1, r2>> : r1 \in [1 .. 2 -> V], r2 \in [1 .. 2 -> V] }

\* The filled rectangle of 1s with corners (r1, c1), (r2, c2) in an image of
\* MaxRows x MaxCols zeros.
Rect(r1, r2, c1, c2) ==
    [r \in 1 .. MaxRows |->
        [c \in 1 .. MaxCols |->
            IF r1 <= r /\ r <= r2 /\ c1 <= c /\ c <= c2 THEN 1 ELSE 0]]

Rectangles ==
    { Rect(b[1], b[2], b[3], b[4]) :
        b \in { x \in (1 .. MaxRows) \X (1 .. MaxRows) \X (1 .. MaxCols) \X (1 .. MaxCols) :
                  x[1] <= x[2] /\ x[3] <= x[4] } }

\* The loaded array: one reference, held by the caller.
Loaded(A) ==
    /\ arrays = <<A>>
    /\ pixel_array = 1
    /\ orig = A
    /\ ret = NoCall
    /\ trace = <<>>

Started == raised = "none" /\ last = [op |-> "start", arg |-> 0]

(***************************************************************************)
(* TransformToHU on one loaded array.                                      *)
(***************************************************************************)
Slopes == {1, 2}
Intercepts == {-1024, 0}
HUPixels == {-3, 0, 5, 1000}

Datasets ==
    {<<>>}
    \cup { [RescaleSlope |-> s] : s \in Slopes }
    \cup { [RescaleIntercept |-> i] : i \in Intercepts }
    \cup { [RescaleSlope |-> s, RescaleIntercept |-> i] : s \in Slopes, i \in Intercepts }

InitHU ==
    /\ filters = <<Construct("FilterTransformToHU", <<>>, <<>>).inst>>
    /\ heap = <<>>
    /\ Started
    /\ ds \in Datasets
    /\ \E A \in RowArrays(HUPixels) \cup SquareArrays({0, 5}) : Loaded(A)

NextHU == \E f \in DOMAIN filters : DispatchHU(f)

SpecHU == InitHU /\ [][NextHU]_vars

(***************************************************************************)
(* Windowing on one loaded array.                                          *)
(***************************************************************************)
Levels == {0, 40, 48}
Widths == (-MaxNegWidth) .. MaxWidth
WindowPixels == {-100, 0, 16, 40, 64, 200}
ExampleArray == << <<-100, 16, 64, 200>> >>

InitWin ==
    /\ filters = <<Construct("FilterWindowing", <<>>, <<>>).inst>>
    /\ \E w \in Widths, l \in Levels : heap = <<[width |-> w, level |-> l]>>
    /\ Started
    /\ ds = <<>>
    /\ \E A \in RowArrays(WindowPixels) \cup {ExampleArray} : Loaded(A)

NextWin == \E f \in DOMAIN filters : DispatchWindowing(f)

SpecWin == InitWin /\ [][NextWin]_vars

(***************************************************************************)
(* Dilate and Erode on one loaded binary image.  The Erode instance has    *)
(* either the Dilate instance's property values or the constructor's.      *)
(***************************************************************************)
Kernels ==
    { FilterMorphologyProperties(kx, ky, it) :
        kx \in 1 .. MaxKernel, ky \in 1 .. MaxKernel, it \in 1 .. MaxIter }

InitMorph ==
    /\ filters = << [cls |-> "FilterMorphologyDilate", properties |-> 1],
                    [cls |-> "FilterMorphologyErode", properties |-> 2] >>
    /\ \E pd \in Kernels, pe \in Kernels \cup {FilterMorphologyErodeInit} :
          /\ pe \in {pd, FilterMorphologyErodeInit}
          /\ heap = <<pd, pe>>
    /\ Started
    /\ ds = <<>>
    /\ \E A \in Rectangles : Loaded(A)

NextMorph ==
    \/ \E f \in DOMAIN filters : DispatchDilate(f)
    \/ \E f \in DOMAIN filters : DispatchErode(f)

SpecMorph == InitMorph /\ [][NextMorph]_vars

(***************************************************************************)
(* The claims.                                                             *)
(***************************************************************************)
Dispatched == trace # <<>>

LastCall == trace[Len(trace)]

Created == last.op = "newFilter" /\ raised = "none"

Newest == filters[Len(filters)]

MissingRescale == ~hasattr(ds, "RescaleSlope") \/ ~hasattr(ds, "RescaleIntercept")

\* C1: when the metadata lacks RescaleSlope or RescaleIntercept,
\* TransformToHU.dispatch raises nothing and returns an array with the shape
\* and the element values of its input.
C1_MissingRescaleReturnsInput ==
    (Dispatched /\ LastCall.cls = "FilterTransformToHU" /\ MissingRescale)
    => /\ raised = "none"
       /\ ret.kind = "ndarray"
       /\ Shape(arrays[ret.ref]) = Shape(LastCall.input)
       /\ arrays[ret.ref] = LastCall.input

\* C2: newFilter(index) raises IndexOutOfRange for every index outside
\* [0, 4), negative ones included, and succeeds for every index inside.
C2_IndexOutsideCatalogFails ==
    last.op = "newFilter"
    => IF 0 <= last.arg /\ last.arg < 4
       THEN raised = "none" /\ Newest.cls = dicom_image_filters[last.arg + 1]
       ELSE raised = "IndexError"

\* C3: a filter just created has the documented defaults: Windowing level 40
\* and width 48, so that it clamps to [16, 64]; Dilate and Erode kernel 5 x 5
\* and 1 iteration.
C3_DocumentedDefaults ==
    Created =>
        /\ Newest.cls = "FilterWindowing" =>
              LET p == heap[Newest.properties]
              IN p.level = 40 /\ p.width = 48 /\ img_min(p) = 16 /\ img_max(p) = 64
        /\ Newest.cls \in {"FilterMorphologyDilate", "FilterMorphologyErode"} =>
              LET p == heap[Newest.properties]
              IN p.kernel_x = 5 /\ p.kernel_y = 5 /\ p.iterations = 1

\* What C4 says of one Windowing call: with lo = level - width // 2 and
\* hi = level + width // 2, elements below lo become lo, elements above hi
\* become hi, the others stay, and the array returned is the one handed in.
ClampedBetween(call, out) ==
    LET lo == call.properties.level - (call.properties.width \div 2)
        hi == call.properties.level + (call.properties.width \div 2)
        in == call.input
    IN /\ Shape(out) = Shape(in)
       /\ \A r \in DOMAIN in : \A c \in DOMAIN in[r] :
             /\ in[r][c] < lo => out[r][c] = lo
             /\ in[r][c] > hi => out[r][c] = hi
             /\ (lo <= in[r][c] /\ in[r][c] <= hi) => out[r][c] = in[r][c]

WindowingExample ==
    (LastCall.properties.level = 40 /\ LastCall.properties.width = 48
        /\ LastCall.input = ExampleArray)
    => arrays[pixel_array] = << <<16, 16, 64, 64>> >>

\* C4 as stated: for every level and width, negative widths included,
\* Windowing.dispatch clamps each element into [min, max] as above and
\* returns the input array itself; [-100, 16, 64, 200] becomes
\* [16, 16, 64, 64] with level 40 and width 48.
C4_ClampsForEveryWidth ==
    (Dispatched /\ LastCall.cls = "FilterWindowing")
    => /\ ret = ReturnedArray(pixel_array)
       /\ ClampedBetween(LastCall, arrays[pixel_array])
       /\ WindowingExample

\* C4 amended: the clamp holds for every level and every width >= 0; for a
\* width < 0 (min > max) every element ends equal to max.  In both cases the
\* array returned is the input array itself, and the example holds.
C4_ClampsForNonNegativeWidth ==
    (Dispatched /\ LastCall.cls = "FilterWindowing")
    => /\ ret = ReturnedArray(pixel_array)
       /\ LastCall.properties.width >= 0 => ClampedBetween(LastCall, arrays[pixel_array])
       /\ LastCall.properties.width < 0 =>
             /\ Shape(arrays[pixel_array]) = Shape(LastCall.input)
             /\ \A r \in DOMAIN LastCall.input : \A c \in DOMAIN LastCall.input[r] :
                   arrays[pixel_array][r][c] =
                       LastCall.properties.level + (LastCall.properties.width \div 2)
       /\ WindowingExample

C4_Witness ==
    /\ Dispatched
    /\ LastCall.cls = "FilterWindowing"
    /\ LastCall.properties = [width |-> 48, level |-> 40]
    /\ LastCall.input = ExampleArray
    /\ arrays[pixel_array] = << <<16, 16, 64, 64>> >>
    /\ ret.ref = pixel_array

\* C5: dispatch never returns None: an in-place filter returns the array it
\* was handed, the others return a pixel array.
C5_DispatchReturnsAnArray ==
    Dispatched
    => /\ ret.kind = "ndarray"
       /\ isInplaceOp(LastCall.cls) => ret.ref = pixel_array

\* C6: when the metadata has RescaleSlope s and RescaleIntercept i,
\* TransformToHU.dispatch returns a new array of the input's shape whose
\* elements are v * s + i, and leaves the caller's array as it was.
C6_RescaleIntoNewArray ==
    (Dispatched /\ LastCall.cls = "FilterTransformToHU" /\ ~MissingRescale)
    => /\ ret.kind = "ndarray"
       /\ ret.ref # pixel_array
       /\ Shape(arrays[ret.ref]) = Shape(LastCall.input)
       /\ \A r \in DOMAIN LastCall.input : \A c \in DOMAIN LastCall.input[r] :
             /\ arrays[ret.ref][r][c] =
                   ds.RescaleSlope * LastCall.input[r][c] + ds.RescaleIntercept
             /\ (ds.RescaleSlope = 2 /\ ds.RescaleIntercept = -1024)
                   => arrays[ret.ref][r][c] = 2 * LastCall.input[r][c] - 1024
       /\ arrays[pixel_array] = LastCall.input
       /\ arrays[pixel_array] = orig

C6_Witness ==
    /\ Dispatched
    /\ ~MissingRescale
    /\ ds.RescaleSlope = 2
    /\ ds.RescaleIntercept = -1024
    /\ orig = << <<-3, 1000>> >>
    /\ ret.kind = "ndarray"
    /\ arrays[ret.ref] = << <<-1030, 976>> >>
    /\ arrays[pixel_array] = orig

\* C7: (a) a filter just created has its class's default property values,
\* whatever was created or changed before; (b) a change of one instance's
\* property changes no other instance's property values, and no two
\* instances hold the same property object.
C7_FreshUnsharedProperties ==
    [][ /\ (last'.op = "newFilter" /\ raised' = "none") =>
              LET new == filters'[Len(filters')]
              IN /\ Len(filters') = Len(filters) + 1
                 /\ BuildsProperties(new.cls) =>
                       /\ heap'[new.properties] = InitProperties(new.cls)
                       /\ \A g \in DOMAIN filters : filters[g].properties # new.properties
                 /\ \A g \in DOMAIN filters :
                       /\ filters'[g] = filters[g]
                       /\ BuildsProperties(filters[g].cls) =>
                             heap'[filters'[g].properties] = heap[filters[g].properties]
        /\ last'.op = "setattr" =>
              \A g \in DOMAIN filters :
                 (g # last'.arg /\ BuildsProperties(filters[g].cls)) =>
                     heap'[filters'[g].properties] = heap[filters[g].properties]
      ]_vars

C7_Witness ==
    /\ Created
    /\ Len(filters) = 2
    /\ filters[1].cls = filters[2].cls
    /\ BuildsProperties(filters[1].cls)
    /\ heap[filters[1].properties] # InitProperties(filters[1].cls)
    /\ heap[filters[2].properties] = InitProperties(filters[2].cls)

\* The positions of the 1s of a binary image.
Ones(A) == { q \in (DOMAIN A) \X (DOMAIN A[1]) : A[q[1]][q[2]] = 1 }

Abs(x) == IF x < 0 THEN -x ELSE x

\* C8: Dilate with a 3 x 3 kernel and 1 iteration makes each pixel the
\* maximum of the input over its 3 x 3 neighbourhood, in the same array; an
\* image with a single 1 ends with 1s at exactly the 3 x 3 neighbourhood of
\* that 1, clipped at the image's bounds.
C8_DilateFillsNeighbourhood ==
    (Dispatched /\ LastCall.cls = "FilterMorphologyDilate"
        /\ LastCall.properties = FilterMorphologyProperties(3, 3, 1))
    => LET in == LastCall.input
           out == arrays[pixel_array]
       IN /\ Len(arrays) = 1
          /\ Shape(out) = Shape(in)
          /\ \A r \in DOMAIN in : \A c \in DOMAIN in[r] :
                out[r][c] = SetMax({ in[q[1]][q[2]] :
                                      q \in { n \in (DOMAIN in) \X (DOMAIN in[1]) :
                                                Abs(n[1] - r) <= 1 /\ Abs(n[2] - c) <= 1 } })
          /\ \A o \in Ones(in) :
                Ones(in) = {o} =>
                    Ones(out) = { q \in (DOMAIN in) \X (DOMAIN in[1]) :
                                    Abs(q[1] - o[1]) <= 1 /\ Abs(q[2] - o[2]) <= 1 }

C8_Witness ==
    /\ Dispatched
    /\ LastCall.cls = "FilterMorphologyDilate"
    /\ LastCall.properties = FilterMorphologyProperties(3, 3, 1)
    /\ Ones(LastCall.input) = { <<1, 1>> }
    /\ Ones(arrays[pixel_array]) = { <<1, 1>>, <<1, 2>>, <<2, 1>>, <<2, 2>> }

\* A binary image whose 1s are a filled axis-aligned rectangle.
RowsOf(S) == { q[1] : q \in S }

ColsOf(S) == { q[2] : q \in S }

IsFilledRectangle(A) ==
    /\ Ones(A) # {}
    /\ Ones(A) = (SetMin(RowsOf(Ones(A))) .. SetMax(RowsOf(Ones(A))))
                    \X (SetMin(ColsOf(Ones(A))) .. SetMax(ColsOf(Ones(A))))
    /\ \A r \in DOMAIN A : \A c \in DOMAIN A[r] : A[r][c] \in {0, 1}

\* The last two calls: Dilate, then Erode with the same kernel, 1 iteration.
DilateThenErode ==
    /\ Len(trace) >= 2
    /\ trace[Len(trace) - 1].cls = "FilterMorphologyDilate"
    /\ LastCall.cls = "FilterMorphologyErode"
    /\ trace[Len(trace) - 1].properties = LastCall.properties
    /\ LastCall.properties.iterations = 1

\* C9 as stated: Dilate then Erode with identical kernel_x, kernel_y and
\* 1 iteration leaves a filled rectangle as it was.
C9_DilateErodeRoundTrip ==
    (DilateThenErode /\ IsFilledRectangle(trace[Len(trace) - 1].input))
    => arrays[pixel_array] = trace[Len(trace) - 1].input

\* The rectangle touches a side of the image, or is more than half a kernel
\* away from it.
ClearOfBorders(A, kx, ky) ==
    LET top == SetMin(RowsOf(Ones(A))) - 1
        bottom == Len(A) - SetMax(RowsOf(Ones(A)))
        left == SetMin(ColsOf(Ones(A))) - 1
        right == Len(A[1]) - SetMax(ColsOf(Ones(A)))
    IN /\ top = 0 \/ 2 * top > kx - 1
       /\ bottom = 0 \/ 2 * bottom > kx - 1
       /\ left = 0 \/ 2 * left > ky - 1
       /\ right = 0 \/ 2 * right > ky - 1

\* C9 amended: the round trip leaves a filled rectangle as it was when
\* kernel_x and kernel_y are odd and each side of the rectangle either
\* touches the image's border or is more than half a kernel away from it.
C9_RoundTripOddKernelClearOfBorders ==
    (/\ DilateThenErode
     /\ IsFilledRectangle(trace[Len(trace) - 1].input)
     /\ LastCall.properties.kernel_x % 2 = 1
     /\ LastCall.properties.kernel_y % 2 = 1
     /\ ClearOfBorders(trace[Len(trace) - 1].input,
                       LastCall.properties.kernel_x, LastCall.properties.kernel_y))
    => arrays[pixel_array] = trace[Len(trace) - 1].input

C9_Witness ==
    /\ DilateThenErode
    /\ IsFilledRectangle(trace[Len(trace) - 1].input)
    /\ LastCall.properties.kernel_x = 3
    /\ LastCall.properties.kernel_y = 3
    /\ ClearOfBorders(trace[Len(trace) - 1].input, 3, 3)
    /\ LastCall.input # trace[Len(trace) - 1].input
    /\ arrays[pixel_array] = trace[Len(trace) - 1].input

\* C10: the half-width is the floor of width / 2: the integer h with
\* 2h <= width < 2h + 2, so 24 for width 49 and -2 for width -3; the
\* bounds are level - h and level + h.
C10_HalfWidthIsFloor ==
    (Dispatched /\ LastCall.cls = "FilterWindowing")
    => LET p == LastCall.properties
           lo == LastCall.locals.img_min
           hi == LastCall.locals.img_max
       IN /\ \E h \in (-(MaxWidth + MaxNegWidth)) .. (MaxWidth + MaxNegWidth) :
                /\ 2 * h <= p.width
                /\ p.width < 2 * h + 2
                /\ lo = p.level - h
                /\ hi = p.level + h
          /\ p.width = 49 => (lo = p.level - 24 /\ hi = p.level + 24)
          /\ p.width = -3 => (lo = p.level + 2 /\ hi = p.level - 2)

C10_Witness ==
    /\ Dispatched
    /\ LastCall.cls = "FilterWindowing"
    /\ LastCall.properties.width = -3
    /\ LastCall.locals.img_min = LastCall.properties.level + 2
    /\ LastCall.locals.img_max = LastCall.properties.level - 2

=============================================================================
